---------------------------- MODULE Spec2Model ----------------------------
(***************************************************************************)
(* A model of default/python/stub_generator/parse_docs.py: the pipeline    *)
(* that turns the signature dump of a wrapped callable into a parameter    *)
(* list and a documentation comment.                                       *)
(*                                                                         *)
(* Python strings are TLA+ strings (sequences of characters): s[i] is      *)
(* SubSeq(s, i, i), concatenation is \o.  Python lists and tuples are      *)
(* TLA+ sequences; a (type, name) pair is the sequence <<type, name>>.     *)
(* A function that writes the module-level dict takes the dict as its      *)
(* first parameter and returns, with its result, the dict it leaves and    *)
(* the diagnostics it passed to logging.error.                             *)
(***************************************************************************)
EXTENDS Integers, Sequences, FiniteSets, TLC

VARIABLES
    normalization_dict,  \* the module-level type-name map
    docs,                \* the Docs object the caller holds (NoDocs: none)
    input,               \* the text blob last handed to Docs, or to be handed
    call,                \* the call that has just returned (Idle: none)
    log                  \* what that call passed to logging.error

vars == <<normalization_dict, docs, input, call, log>>

---------------------------------------------------------------------------
(* Bounds of the model.                                                    *)

MaxArgs == 3        \* longest argument list given to get_argument_names
MaxOverloads == 3   \* most argument lists given to merge_args
MaxLines == 3       \* most lines of a text blob

---------------------------------------------------------------------------
\* body(value), with value computed once and bound as a value: what an
\* assignment to a local variable does.
with(value, body(_)) == CHOOSE result \in { body(v) : v \in {value} } : TRUE

---------------------------------------------------------------------------
(* Strings.                                                                *)

WordChars ==
    { SubSeq("abcdefghijklmnopqrstuvwxyzABCDEFGHIJKLMNOPQRSTUVWXYZ0123456789_", i, i) :
        i \in 1..63 }

Whitespace == {" ", "\t", "\n", "\r"}

\* The printable ASCII characters in code-point order, in runs from 32, 35, 93
\* and 97 (the double quote, 34, the backslash, 92, and the grave accent, 96,
\* occur in no text of the model and are left out).
Ascii32 == " !"
Ascii35 == "#$%&'()*+,-./0123456789:;<=>?@ABCDEFGHIJKLMNOPQRSTUVWXYZ["
Ascii93 == "]^_"
Ascii97 == "abcdefghijklmnopqrstuvwxyz{|}~"

index(s, c) == CHOOSE i \in 1..Len(s) : SubSeq(s, i, i) = c

contains(s, c) == \E i \in 1..Len(s) : SubSeq(s, i, i) = c

ord(c) ==
    IF c = "\n" THEN 10
    ELSE IF c = "\t" THEN 9
    ELSE IF contains(Ascii32, c) THEN 31 + index(Ascii32, c)
    ELSE IF contains(Ascii35, c) THEN 34 + index(Ascii35, c)
    ELSE IF contains(Ascii93, c) THEN 92 + index(Ascii93, c)
    ELSE 96 + index(Ascii97, c)

\* s[i-1:j] of Python (positions from 1, both ends included, cut to the string).
substr(s, i, j) ==
    LET lo == IF i < 1 THEN 1 ELSE i
        hi == IF j > Len(s) THEN Len(s) ELSE j
    IN  IF lo > hi THEN "" ELSE SubSeq(s, lo, hi)

\* The character of s at position i; "" outside s.
at(s, i) == substr(s, i, i)

startswith(s, prefix) ==
    Len(prefix) <= Len(s) /\ substr(s, 1, Len(prefix)) = prefix

endswith(s, suffix) ==
    Len(suffix) <= Len(s) /\ substr(s, Len(s) - Len(suffix) + 1, Len(s)) = suffix

\* The least element of a non-empty set of integers.
least(S) == CHOOSE k \in S : \A m \in S : k <= m

\* s < t for Python strings: by code point at the first position where they
\* differ, a proper prefix first.
str_lt(s, t) ==
    LET n == IF Len(s) < Len(t) THEN Len(s) ELSE Len(t)
        differ == {i \in 1..n : at(s, i) # at(t, i)}
    IN  IF differ = {} THEN Len(s) < Len(t)
        ELSE ord(at(s, least(differ))) < ord(at(t, least(differ)))

\* str(n) for n >= 0.
RECURSIVE str(_)
str(n) ==
    IF n < 10 THEN SubSeq("0123456789", n + 1, n + 1)
    ELSE str(n \div 10) \o SubSeq("0123456789", (n % 10) + 1, (n % 10) + 1)

\* c * n
RECURSIVE repeat(_, _)
repeat(c, n) == IF n <= 0 THEN "" ELSE c \o repeat(c, n - 1)

\* sep.join(parts)
RECURSIVE join(_, _)
join(sep, parts) ==
    IF parts = <<>> THEN ""
    ELSE IF Len(parts) = 1 THEN parts[1]
    ELSE parts[1] \o sep \o join(sep, Tail(parts))

\* s.split(sep) for a one-character sep: the pieces between the occurrences
\* of sep, one more than there are occurrences.
split(s, sep) ==
    LET cuts == {i \in 1..Len(s) : at(s, i) = sep}
        cut(k) == IF k = 0 THEN 0
                  ELSE IF k > Cardinality(cuts) THEN Len(s) + 1
                  ELSE CHOOSE i \in cuts : Cardinality({j \in cuts : j < i}) = k - 1
    IN  [k \in 1..(Cardinality(cuts) + 1) |-> substr(s, cut(k - 1) + 1, cut(k) - 1)]

\* s.strip()
strip(s) ==
    LET kept == {i \in 1..Len(s) : at(s, i) \notin Whitespace}
    IN  IF kept = {} THEN ""
        ELSE substr(s, least(kept), CHOOSE k \in kept : \A m \in kept : m <= k)

\* The length of the longest run of word characters (\w) of s from position i.
word_run(s, i) ==
    least({k \in i..(Len(s) + 1) : at(s, k) \notin WordChars}) - i

\* The length of the run of spaces of s from position i.
space_run(s, i) ==
    least({k \in i..(Len(s) + 1) : at(s, k) # " "}) - i

---------------------------------------------------------------------------
(* The type-name map as the module defines it.                             *)

Catalogue ==
  [ empire |-> "empire_object",
     int |-> "number",
     str |-> "string",
     float |-> "floating_number",
     object |-> "obj",
     IntBoolMap |-> "int_bool_map",
     IntDblMap |-> "int_dbl_map",
     universeObject |-> "base_object",
     meterType |-> "meter_type",
     bool |-> "boolean",
     StringVec |-> "string_list",
     shipDesign |-> "ship_design",
     universe |-> "universe_object",
     researchQueue |-> "research_queue",
     resPoolMap |-> "res_pool",
     productionQueue |-> "production_queue",
     diplomaticMessage |-> "diplomatic_message",
     ship |-> "ship_object",
     species |-> "species_object",
     planetType |-> "planet_type",
     system |-> "system_object",
     tech |-> "tech_object",
     list |-> "item_list",
     planet |-> "planet_object",
     shipPart |-> "ship_part",
     resPool |-> "res_pool",
     researchQueueElement |-> "research_queue_element",
     shipSlotType |-> "ship_slot_type",
     IntIntMap |-> "int_int_map",
     IntPairVec |-> "int_pair_list",
     IntSet |-> "int_set",
     IntSetSet |-> "int_set_set",
     IntVec |-> "int_list",
     IntVisibilityMap |-> "int_visibility_map",
     UnlockableItemVec |-> "unlockable_item_vec",
     StringSet |-> "string_set",
     VisibilityIntMap |-> "visibility_int_map",
     buildingType |-> "buildingType",
     productionQueueElement |-> "production_queue_element",
     resourceType |-> "resource_type",
     fleetAggression |-> "fleet_aggression",
     buildType |-> "build_type",
     field |-> "field",
     shipHull |-> "ship_hull",
     PlanetSize |-> "planet_size",
     planetSize |-> "planet_size",
     unlockableItemType |-> "unlockable_item_type",
     dict |-> "dictionary",
     StarType |-> "star_type",
     starType |-> "star_type",
     UnlockableItemType |-> "unlocable_item_type",
     FleetPlan |-> "fleet_plan",
     MeterTypeMeterMap |-> "meter_type_meter_map",
     PairIntInt_IntMap |-> "pair_int_int_int_map",
     MonsterFleetPlan |-> "monster_fleet_plan",
     ShipPartMeterMap |-> "ship_part_meter_map",
     ShipSlotVec |-> "ship_slot_vec",
     special |-> "special",
     IntFltMap |-> "int_flt_map",
     ruleType |-> "rule_type",
     influenceQueueElement |-> "influence_queue_element" ]

NoCounts == [x \in {} |-> 0]

---------------------------------------------------------------------------
(* normalize_name, get_argument_names                                      *)

\* normalize_name without line 77.
normalize_name_no_insert(d, tp) ==
    IF ~startswith(tp[2], "arg") THEN [ret |-> tp[2], dict |-> d, errors |-> <<>>]
    ELSE IF tp[1] \notin DOMAIN d
    THEN [ret |-> "arg", dict |-> d,
          errors |-> << "Can't find proper name for: " \o tp[1]
                        \o ", please add it to name mapping \n" >>]
    ELSE [ret |-> d[tp[1]], dict |-> d, errors |-> <<>>]

\* normalize_name(tp) run on the dict d: what it returns, the dict it leaves
\* and what it logs.
normalize_name(d, tp) ==
    LET argument_type == tp[1]
        provided_name == tp[2]
    IN  IF ~startswith(provided_name, "arg")
        THEN [ret |-> provided_name, dict |-> d, errors |-> <<>>]
        ELSE IF argument_type \notin DOMAIN d
        THEN [ret |-> "arg",
              dict |-> (argument_type :> "arg") @@ d,
              errors |-> << "Can't find proper name for: " \o argument_type
                            \o ", please add it to name mapping \n" >>]
        ELSE [ret |-> d[argument_type], dict |-> d, errors |-> <<>>]

\* [normalize_name(tp) for tp in arguments], left to right.
RECURSIVE normalize_names(_, _)
normalize_names(d, arguments) ==
    IF arguments = <<>> THEN [names |-> <<>>, dict |-> d, errors |-> <<>>]
    ELSE LET first == normalize_name(d, Head(arguments))
             rest == normalize_names(first.dict, Tail(arguments))
         IN  [names |-> <<first.ret>> \o rest.names,
              dict |-> rest.dict,
              errors |-> first.errors \o rest.errors]

\* arg_names.count(arg_name)
count(arg_names, arg_name) ==
    Cardinality({i \in 1..Len(arg_names) : arg_names[i] = arg_name})

\* The loop with the first occurrence of a repeated name left bare.
RECURSIVE suffix_names_after_first(_, _, _, _)
suffix_names_after_first(arg_names, i, counts, names) ==
    IF i > Len(arg_names) THEN names
    ELSE LET arg_name == arg_names[i]
             n == IF arg_name \in DOMAIN counts THEN counts[arg_name] + 1 ELSE 1
         IN  suffix_names_after_first(arg_names, i + 1, (arg_name :> n) @@ counts,
                 Append(names, IF n = 1 THEN arg_name ELSE arg_name \o str(n)))

\* The loop of get_argument_names from position i on: counts and names so far.
RECURSIVE suffix_names(_, _, _, _)
suffix_names(arg_names, i, counts, names) ==
    IF i > Len(arg_names) THEN names
    ELSE LET arg_name == arg_names[i]
         IN  IF count(arg_names, arg_name) = 1
             THEN suffix_names(arg_names, i + 1, counts, Append(names, arg_name))
             ELSE LET n == IF arg_name \in DOMAIN counts THEN counts[arg_name] + 1 ELSE 1
                      counts1 == (arg_name :> n) @@ counts
                  IN  suffix_names(arg_names, i + 1, counts1,
                                   Append(names, arg_name \o str(n)))

get_argument_names(d, arguments, is_class) ==
    LET types == [i \in 1..Len(arguments) |-> arguments[i][1]]
        args1 == IF is_class THEN SubSeq(arguments, 2, Len(arguments)) ELSE arguments
        normalized == normalize_names(d, args1)
        names == suffix_names(normalized.names, 1, NoCounts, <<>>)
    IN  [names |-> IF is_class THEN <<"self">> \o names ELSE names,
         types |-> types,
         dict |-> normalized.dict,
         errors |-> normalized.errors]

---------------------------------------------------------------------------
(* merge_args                                                              *)

\* p < q for two (type, name) tuples.
pair_lt(p, q) ==
    \/ str_lt(p[1], q[1])
    \/ p[1] = q[1] /\ str_lt(p[2], q[2])

\* a < b for two tuples of (type, name) tuples.
RECURSIVE shape_lt(_, _)
shape_lt(a, b) ==
    IF b = <<>> THEN FALSE
    ELSE IF a = <<>> THEN TRUE
    ELSE IF Head(a) # Head(b) THEN pair_lt(Head(a), Head(b))
    ELSE shape_lt(Tail(a), Tail(b))

\* sorted(S) for a set S of argument tuples.
RECURSIVE sorted_shapes(_)
sorted_shapes(S) ==
    IF S = {} THEN <<>>
    ELSE LET first == CHOOSE x \in S : \A y \in S \ {x} : shape_lt(x, y)
         IN  <<first>> \o sorted_shapes(S \ {first})

\* zip(names, types) as a list.
zip(names, types) ==
    LET n == IF Len(names) < Len(types) THEN Len(names) ELSE Len(types)
    IN  [i \in 1..n |-> <<names[i], types[i]>>]

_get_duplicated_arguments_message(name, raw_arg_types) ==
    LET args_line(arg_set) ==
            join(", ", [k \in 1..Len(arg_set) |-> arg_set[k][2] \o ":" \o arg_set[k][1]])
    IN  << "", "Cannot merge different set of arguments for a callable: " \o name >>
        \o [i \in 1..Len(raw_arg_types) |->
                "   " \o str(i) \o ":  " \o args_line(raw_arg_types[i])]
        \o << "" >>

\* Which branch merge_args takes on the sorted distinct argument tuples.
merge_policy_any_two(arg_types) ==
    IF Len(arg_types) = 1 THEN "single"
    ELSE IF Len(arg_types) = 2 THEN "keyword"
    ELSE "fallback"

merge_policy(arg_types) ==
    IF Len(arg_types) = 1 THEN "single"
    ELSE IF Len(arg_types) = 2 /\ \E i \in 1..2 : arg_types[i] = <<>> THEN "keyword"
    ELSE "fallback"

\* The argument tuple that branch hands to get_argument_names:
\* arg_types[0], next(filter(None, arg_types)), raw_arg_types[0].
merge_chosen_sorted_first(arg_types, raw_arg_types) ==
    IF merge_policy(arg_types) = "keyword"
    THEN arg_types[CHOOSE i \in 1..2 : /\ arg_types[i] # <<>>
                                       /\ \A j \in 1..(i - 1) : arg_types[j] = <<>>]
    ELSE arg_types[1]

merge_chosen(arg_types, raw_arg_types) ==
    IF merge_policy(arg_types) = "single" THEN arg_types[1]
    ELSE IF merge_policy(arg_types) = "keyword"
    THEN arg_types[CHOOSE i \in 1..2 : /\ arg_types[i] # <<>>
                                       /\ \A j \in 1..(i - 1) : arg_types[j] = <<>>]
    ELSE raw_arg_types[1]

merge_args(d, name, raw_arg_types, is_class) ==
    LET size == Len(raw_arg_types)
        branch(arg_types) ==
            LET duplicated == IF Len(arg_types) # size
                              THEN << "[" \o name \o "] Duplicated argument types" >>
                              ELSE <<>>
                cannot == IF merge_policy(arg_types) = "fallback"
                          THEN << join("\n", _get_duplicated_arguments_message(
                                                 name, raw_arg_types)) >>
                          ELSE <<>>
                use_keyword == merge_policy(arg_types) = "keyword"
                result(got) ==
                    [decl |-> IF use_keyword
                              THEN [i \in 1..Len(got.names) |-> got.names[i] \o "=None"]
                              ELSE got.names,
                     args |-> zip(got.names, got.types),
                     dict |-> got.dict,
                     errors |-> duplicated \o cannot \o got.errors]
            IN  with(merge_chosen(arg_types, raw_arg_types), LAMBDA arguments :
                     with(get_argument_names(d, arguments, is_class), result))
    IN  with(sorted_shapes({raw_arg_types[i] : i \in 1..size}), branch)

---------------------------------------------------------------------------
(* Docs                                                                    *)

normalize_rtype_unchanged(rtype) == rtype

normalize_rtype(rtype) == IF rtype = "iterator" THEN "iter" ELSE rtype

\* Where a match of \((\w+)\) *(\w+) that starts at position i of args ends; 0 if
\* none starts there.  Each greedy run is followed by a character it excludes, so
\* the match, if any, takes each run whole.
pair_end(args, i) ==
    LET w1 == word_run(args, i + 1)
        close == i + 1 + w1
        sp == space_run(args, close + 1)
        w2 == word_run(args, close + 1 + sp)
    IN  IF at(args, i) = "(" /\ w1 >= 1 /\ at(args, close) = ")" /\ w2 >= 1
        THEN close + sp + w2
        ELSE 0

\* re.findall(r'\((\w+)\) *(\w+)', args) from position i on: the matches found
\* left to right, none overlapping; text that matches nothing is passed over.
RECURSIVE findall_pairs(_, _)
findall_pairs(args, i) ==
    LET starts == {k \in i..Len(args) : pair_end(args, k) # 0}
        found(k) ==
            LET close == k + 1 + word_run(args, k + 1)
                end == pair_end(args, k)
            IN  << << substr(args, k + 1, close - 1),
                      substr(args, end - word_run(args, close + 1
                                                  + space_run(args, close + 1)) + 1, end) >> >>
                \o findall_pairs(args, end + 1)
    IN  IF starts = {} THEN <<>> ELSE with(least(starts), found)

\* parse_signature(line): re.match of (\w+)\((.*)\) -> (\w+) at the start of the
\* line, the greedy .* ending at the last ") -> " a word follows.  ok is FALSE
\* where match() returns None and .group raises.
parse_signature(line) ==
    LET n == word_run(line, 1)
        ends == {j \in (n + 2)..Len(line) :
                    /\ substr(line, j, j + 4) = ") -> "
                    /\ word_run(line, j + 5) >= 1}
        matched == n >= 1 /\ at(line, n + 1) = "(" /\ ends # {}
        j == CHOOSE k \in ends : \A m \in ends : m <= k
    IN  IF ~matched THEN [ok |-> FALSE, name |-> "", args |-> <<>>, rtype |-> ""]
        ELSE [ok |-> TRUE,
              name |-> substr(line, 1, n),
              args |-> findall_pairs(substr(line, n + 2, j - 1), 1),
              rtype |-> substr(line, j + 5, j + 4 + word_run(line, j + 5))]

\* The scan of lines[1:] in Docs.__init__, from line i on: res so far, under the
\* name parsed last.
RECURSIVE scan_lines(_, _, _, _)
scan_lines(lines, i, name, res) ==
    IF i > Len(lines) THEN [raised |-> FALSE, name |-> name, res |-> res]
    ELSE IF startswith(lines[i], name \o "(")
    THEN LET sig == parse_signature(lines[i])
         IN  IF ~sig.ok THEN [raised |-> TRUE, name |-> name, res |-> res]
             ELSE scan_lines(lines, i + 1, sig.name,
                             Append(res, [args |-> sig.args, rtype |-> sig.rtype,
                                          info |-> <<>>]))
    ELSE scan_lines(lines, i + 1, name,
                    [res EXCEPT ![Len(res)].info = Append(@, lines[i])])

\* What one record's lines add to doc_lines.
doc_part_lines(doc_part) ==
    IF doc_part = <<>> THEN <<>>
    ELSE LET part1 == IF doc_part[1] = "" THEN Tail(doc_part) ELSE doc_part
         IN  IF part1 = <<>> THEN <<>>
             ELSE LET part2 == IF part1[Len(part1)] = ""
                               THEN SubSeq(part1, 1, Len(part1) - 1) ELSE part1
                  IN  << join("\n", part2) >>

RECURSIVE collect_doc_lines(_)
collect_doc_lines(infos) ==
    IF infos = <<>> THEN <<>>
    ELSE doc_part_lines(Head(infos)) \o collect_doc_lines(Tail(infos))

\* sorted(strings)
RECURSIVE insert_sorted(_, _)
insert_sorted(sorted, x) ==
    IF sorted = <<>> THEN <<x>>
    ELSE IF str_lt(x, Head(sorted)) THEN <<x>> \o sorted
    ELSE <<Head(sorted)>> \o insert_sorted(Tail(sorted), x)

RECURSIVE sorted_strings(_)
sorted_strings(strings) ==
    IF strings = <<>> THEN <<>>
    ELSE insert_sorted(sorted_strings(SubSeq(strings, 1, Len(strings) - 1)),
                       strings[Len(strings)])

\* Docs(text, indent, is_class) run on the dict d.  no_text: text is None.
\* raised: __init__ raised and there is no object.
Docs_init(d, no_text, text, indent, is_class) ==
    LET degenerate ==
            [raised |-> FALSE,
             obj |-> [indent |-> indent, is_class |-> is_class, rtype |-> "unknown",
                      args |-> << "*args" >>, header |-> ""],
             dict |-> d, errors |-> <<>>]
        raise == [raised |-> TRUE, obj |-> [indent |-> indent, is_class |-> is_class],
                  dict |-> d, errors |-> <<>>]
        stripped == LET split_lines == split(text, "\n")
                    IN  [i \in 1..Len(split_lines) |-> strip(split_lines[i])]
        finish(scanned) ==
            LET res == scanned.res
                args == [i \in 1..Len(res) |-> res[i].args]
                rtypes == [i \in 1..Len(res) |-> res[i].rtype]
                infos == [i \in 1..Len(res) |-> res[i].info]
                different == IF Cardinality({rtypes[i] : i \in 1..Len(rtypes)}) # 1
                             THEN << "[" \o scanned.name \o "] Different rtypes" >>
                             ELSE <<>>
                result(merged) ==
                    [raised |-> FALSE,
                     obj |-> [indent |-> indent, is_class |-> is_class, text |-> text,
                              resources |-> res,
                              rtype |-> normalize_rtype(rtypes[1]),
                              header |-> sorted_strings(collect_doc_lines(infos)),
                              argument_declaration |-> merged.decl,
                              args |-> merged.args],
                     dict |-> merged.dict,
                     errors |-> different \o merged.errors]
            IN  IF scanned.raised THEN raise
                ELSE with(args, LAMBDA raw_arg_types :
                          with(merge_args(d, scanned.name, raw_arg_types, is_class),
                               result))
        scan(lines) ==
            with(parse_signature(lines[1]), LAMBDA first :
                 IF ~first.ok THEN raise
                 ELSE with(scan_lines(lines, 2, first.name,
                                      << [args |-> first.args, rtype |-> first.rtype,
                                          info |-> <<>>] >>),
                           finish))
    IN  IF no_text \/ text = "" THEN degenerate ELSE with(stripped, scan)

\* self.get_argument_string(); raised: unpacking an element of self.args that
\* is not of length 2 raises ValueError.
get_argument_string(self) ==
    LET rest == SubSeq(self.args, IF self.is_class THEN 2 ELSE 1, Len(self.args))
        rendered == [i \in 1..Len(rest) |-> rest[i][1] \o ": " \o rest[i][2]]
    IN  IF \E i \in 1..Len(rest) : Len(rest[i]) # 2
        THEN [raised |-> TRUE, ret |-> ""]
        ELSE [raised |-> FALSE,
              ret |-> join(", ", (IF self.is_class THEN <<"self">> ELSE <<>>) \o rendered)]

\* self.get_doc_string()
get_doc_string(self) ==
    LET doc == IF Len(self.header) # 0
               THEN << "\"\"\"" >> \o self.header \o << "\"\"\"" >>
               ELSE <<>>
    IN  join("\n", [i \in 1..Len(doc) |->
                       (IF doc[i] # "" THEN repeat(" ", 4 * self.indent) ELSE "")
                       \o doc[i]])

---------------------------------------------------------------------------
(* The inputs of the model.                                                *)

\* Type tokens: two of the catalogue and one it does not hold.
TypeTokens == {"int", "str", "Widget"}

\* Placeholders ("argN") and names the source text supplies; "args1" is
\* supplied by the source and begins like a placeholder.
ProvidedNames == {"arg1", "arg2", "args1", "number1", "self", "star_name"}

ArgSpecs ==
    { <<"int", "arg1">>, <<"int", "arg2">>, <<"str", "arg1">>,
      <<"int", "number1">>, <<"Widget", "arg1">>, <<"Widget", "self">> }

ArgumentLists == UNION { [1..n -> ArgSpecs] : n \in 0..MaxArgs }

Shapes ==
    { <<>>,
      << <<"int", "arg1">> >>,
      << <<"str", "arg1">> >>,
      << <<"int", "arg1">>, <<"int", "arg2">> >>,
      << <<"Widget", "arg1">>, <<"int", "star_name">> >> }

RawArgTypes == UNION { [1..n -> Shapes] : n \in 1..MaxOverloads }

\* Indentation levels: module level and one level in.
Indents == {0, 1}

\* A line of a text blob with what its writer means by it: a signature of the
\* grammar (sig: its argument pairs and its return type), a line that begins like
\* a signature and is none (loose), a line of documentation (doc).
SigLine(args, rtype, tail) ==
    [kind |-> "sig", args |-> args, rtype |-> rtype,
     chars |-> "getEmpire("
               \o join(", ", [i \in 1..Len(args) |->
                                 "(" \o args[i][1] \o ")" \o args[i][2]])
               \o ") -> " \o rtype \o tail]

LooseLine(chars) == [kind |-> "loose", args |-> <<>>, rtype |-> "", chars |-> chars]

DocLine(chars) == [kind |-> "doc", args |-> <<>>, rtype |-> "", chars |-> chars]

ExampleArgs == << <<"int", "star_name">>, <<"int", "arg2">>, <<"int", "arg3">> >>

Lines ==
    { SigLine(<<>>, "empire", ""),
      SigLine(ExampleArgs, "empire", ""),
      SigLine(<< <<"Widget", "arg1">> >>, "iterator", " :"),
      LooseLine("getEmpire(int, (str)arg2) -> str"),
      LooseLine("getEmpire(...)"),
      DocLine(""),
      DocLine("    Returns the empire.") }

Sources == UNION { [1..n -> Lines] : n \in 1..MaxLines }

text_of(source) == join("\n", [i \in 1..Len(source) |-> source[i].chars])

Inputs ==
    { [no_text |-> FALSE, source |-> src, text |-> text_of(src),
       indent |-> indent, is_class |-> is_class] :
        src \in Sources, indent \in Indents, is_class \in BOOLEAN }
    \cup
    { [no_text |-> TRUE, source |-> <<>>, text |-> "",
       indent |-> indent, is_class |-> is_class] :
        indent \in Indents, is_class \in BOOLEAN }

\* The blobs of a session of Spec: the example of __main__, an overload of an
\* unmapped type with documentation, and no text.
SessionSources ==
    { << SigLine(<<>>, "empire", ""), DocLine(""), SigLine(ExampleArgs, "empire", "") >>,
      << SigLine(<< <<"Widget", "arg1">> >>, "iterator", " :"),
         DocLine("    Returns the empire.") >>,
      << DocLine("") >> }

NoInput == [no_text |-> TRUE, source |-> <<>>, text |-> "", indent |-> 0, is_class |-> FALSE]

---------------------------------------------------------------------------
(* The state machine: a single-threaded caller makes one call at a time    *)
(* and takes its result before the next.                                   *)

NoDocs == [exists |-> FALSE]

Idle == [fn |-> "idle"]

NormalizeName(tp) ==
    LET r == normalize_name(normalization_dict, tp)
    IN  /\ call = Idle
        /\ normalization_dict' = r.dict
        /\ log' = r.errors
        /\ call' = [fn |-> "normalize_name", tp |-> tp, ret |-> r.ret]
        /\ UNCHANGED <<docs, input>>

GetArgumentNames(arguments, is_class) ==
    LET r == get_argument_names(normalization_dict, arguments, is_class)
    IN  /\ call = Idle
        /\ normalization_dict' = r.dict
        /\ log' = r.errors
        /\ call' = [fn |-> "get_argument_names", arguments |-> arguments,
                    is_class |-> is_class, names |-> r.names, types |-> r.types]
        /\ UNCHANGED <<docs, input>>

MergeArgs(name, raw_arg_types, is_class) ==
    LET r == merge_args(normalization_dict, name, raw_arg_types, is_class)
    IN  /\ call = Idle
        /\ normalization_dict' = r.dict
        /\ log' = r.errors
        /\ call' = [fn |-> "merge_args", name |-> name, raw_arg_types |-> raw_arg_types,
                    is_class |-> is_class, decl |-> r.decl, args |-> r.args]
        /\ UNCHANGED <<docs, input>>

\* info = Docs(text, indent, is_class); a raise leaves the caller no object.
Construct(in) ==
    LET r == Docs_init(normalization_dict, in.no_text, in.text, in.indent, in.is_class)
    IN  /\ call = Idle
        /\ normalization_dict' = r.dict
        /\ log' = r.errors
        /\ docs' = IF r.raised THEN NoDocs ELSE r.obj
        /\ call' = [fn |-> "Docs", raised |-> r.raised]
        /\ input' = in

GetArgumentString ==
    LET r == get_argument_string(docs)
    IN  /\ call = Idle
        /\ docs # NoDocs
        /\ call' = [fn |-> "get_argument_string", raised |-> r.raised, ret |-> r.ret]
        /\ log' = <<>>
        /\ UNCHANGED <<normalization_dict, docs, input>>

GetDocString ==
    /\ call = Idle
    /\ docs # NoDocs
    /\ call' = [fn |-> "get_doc_string", raised |-> FALSE, ret |-> get_doc_string(docs)]
    /\ log' = <<>>
    /\ UNCHANGED <<normalization_dict, docs, input>>

\* The caller has taken the result.
Return ==
    /\ call # Idle
    /\ call' = Idle
    /\ log' = <<>>
    /\ UNCHANGED <<normalization_dict, docs, input>>

Init ==
    /\ normalization_dict = Catalogue
    /\ docs = NoDocs
    /\ input = NoInput
    /\ call = Idle
    /\ log = <<>>

Next ==
    \/ \E type \in TypeTokens, name \in ProvidedNames : NormalizeName(<<type, name>>)
    \/ \E arguments \in ArgumentLists, is_class \in BOOLEAN :
          GetArgumentNames(arguments, is_class)
    \/ \E raw_arg_types \in RawArgTypes, is_class \in BOOLEAN :
          MergeArgs("getEmpire", raw_arg_types, is_class)
    \/ \E src \in SessionSources, is_class \in BOOLEAN :
          Construct([no_text |-> FALSE, source |-> src, text |-> text_of(src),
                     indent |-> 1, is_class |-> is_class])
    \/ GetArgumentString
    \/ GetDocString
    \/ Return

Spec == Init /\ [][Next]_vars

\* One text blob through Docs and its two renderings, any number of times.
DocsInit ==
    /\ normalization_dict = Catalogue
    /\ docs = NoDocs
    /\ input \in Inputs
    /\ call = Idle
    /\ log = <<>>

DocsNext ==
    \/ Construct(input)
    \/ GetArgumentString
    \/ GetDocString
    \/ Return

DocsSpec == DocsInit /\ [][DocsNext]_vars

---------------------------------------------------------------------------
(* Properties.                                                             *)

\* The argument tuples of the merge_args call just made, as a set.
distinct_shapes == {call.raw_arg_types[i] : i \in 1..Len(call.raw_arg_types)}

marked(decl) == endswith(decl, "=None")

\* The caller holds a Docs built from text, not the degenerate one.
built == docs # NoDocs /\ "resources" \in DOMAIN docs

degenerate == docs # NoDocs /\ "resources" \notin DOMAIN docs

\* C1: the names get_argument_names returns are pairwise distinct.
C1_NamesDistinct ==
    call.fn = "get_argument_names" =>
        \A i, j \in 1..Len(call.names) : i # j => call.names[i] # call.names[j]

\* C2: in the list get_argument_names returns, a candidate name that occurs
\* once among the candidates stands bare at its position, and a candidate that
\* occurs k >= 2 times stands as name1 .. namek at its occurrences, left to
\* right; the receiver of a class member is dropped and 'self' put first.
C2_SuffixesByOccurrence ==
    call.fn = "get_argument_names" =>
        LET off == IF call.is_class THEN 1 ELSE 0
            n == IF call.is_class /\ call.arguments # <<>>
                 THEN Len(call.arguments) - 1 ELSE Len(call.arguments)
            candidate(i) ==
                LET tp == call.arguments[i + Len(call.arguments) - n]
                IN  IF startswith(tp[2], "arg") THEN normalization_dict[tp[1]] ELSE tp[2]
            occurrences(i) == {j \in 1..n : candidate(j) = candidate(i)}
        IN  /\ Len(call.names) = n + off
            /\ call.is_class => call.names[1] = "self"
            /\ \A i \in 1..n :
                  call.names[i + off] =
                      IF Cardinality(occurrences(i)) = 1 THEN candidate(i)
                      ELSE candidate(i)
                           \o str(Cardinality({j \in occurrences(i) : j <= i}))

C2_Witness ==
    /\ call.fn = "get_argument_names"
    /\ ~call.is_class
    /\ call.names = <<"number1", "string", "number2">>

\* C3: merge_args marks its declarations with '=None' exactly when its argument
\* tuples are two distinct ones of which one is empty; then the declarations are
\* the names of the non-empty one, each marked, and otherwise none is marked.
C3_MarkerIffOptionalMerge ==
    call.fn = "merge_args" =>
        IF Cardinality(distinct_shapes) = 2 /\ <<>> \in distinct_shapes
        THEN LET shape == CHOOSE x \in distinct_shapes : x # <<>>
                 names == get_argument_names(normalization_dict, shape,
                                             call.is_class).names
             IN  /\ call.decl = [i \in 1..Len(names) |-> names[i] \o "=None"]
                 /\ call.decl # <<>>
        ELSE \A i \in 1..Len(call.decl) : ~marked(call.decl[i])

C3_Witness ==
    /\ call.fn = "merge_args"
    /\ Len(call.raw_arg_types) = 3
    /\ call.decl = <<"number1=None", "number2=None">>

\* C4: with three or more distinct argument tuples, or two distinct non-empty
\* ones, merge_args logs the shapes it cannot merge and returns, unmarked, the
\* names of the first tuple it was given.
C4_FallbackUsesFirstRawList ==
    (/\ call.fn = "merge_args"
     /\ \/ Cardinality(distinct_shapes) >= 3
        \/ Cardinality(distinct_shapes) = 2 /\ <<>> \notin distinct_shapes)
    =>  /\ call.decl = get_argument_names(normalization_dict, call.raw_arg_types[1],
                                          call.is_class).names
        /\ \A i \in 1..Len(call.decl) : ~marked(call.decl[i])
        /\ \E k \in 1..Len(log) :
              startswith(log[k], "\nCannot merge different set of arguments for a callable: "
                                 \o call.name)

C4_Witness ==
    /\ call.fn = "merge_args"
    /\ Cardinality(distinct_shapes) = 3
    /\ call.raw_arg_types[1] = << <<"str", "arg1">> >>
    /\ <<>> \in distinct_shapes
    /\ call.decl = <<"string">>

\* C5: a step never removes a key of the type-name map nor changes its value,
\* and adds keys only with the value 'arg'; normalize_name of a placeholder
\* returns the map's value for the type, adding an unknown type with one
\* diagnostic; normalize_name of a supplied name leaves the map as it is.
C5_MapAppendOnly ==
    [][ /\ \A k \in DOMAIN normalization_dict :
              /\ k \in DOMAIN normalization_dict'
              /\ normalization_dict'[k] = normalization_dict[k]
        /\ \A k \in DOMAIN normalization_dict' \ DOMAIN normalization_dict :
              normalization_dict'[k] = "arg"
        /\ call'.fn = "normalize_name" =>
              IF startswith(call'.tp[2], "arg")
              THEN /\ call'.tp[1] \in DOMAIN normalization_dict'
                   /\ call'.ret = normalization_dict'[call'.tp[1]]
                   /\ call'.tp[1] \notin DOMAIN normalization_dict
                        => call'.ret = "arg" /\ Len(log') = 1
              ELSE /\ normalization_dict' = normalization_dict
                   /\ call'.ret = call'.tp[2]
      ]_vars

C5_Witness ==
    /\ call.fn = "normalize_name"
    /\ call.tp = <<"Widget", "arg2">>
    /\ call.ret = "arg"
    /\ log = <<>>
    /\ "Widget" \notin DOMAIN Catalogue

\* What is left of a record's lines once a single leading and a single
\* trailing blank line are dropped.
trimmed(lines) ==
    LET a == IF lines # <<>> /\ lines[1] = "" THEN Tail(lines) ELSE lines
    IN  IF a # <<>> /\ a[Len(a)] = "" THEN SubSeq(a, 1, Len(a) - 1) ELSE a

surviving == {i \in 1..Len(docs.resources) : trimmed(docs.resources[i].info) # <<>>}

\* C6: the header of a Docs has one body for each record that has lines left
\* after the trimming, and none for the others; with no such record
\* get_doc_string returns the empty string.
C6_EmptyBodiesDiscarded ==
    built =>
        /\ Len(docs.header) = Cardinality(surviving)
        /\ call.fn = "get_doc_string" /\ surviving = {} => call.ret = ""

\* C7: get_doc_string returns the empty string when the header has no body, and
\* otherwise a text whose every non-empty line starts with 4 * indent spaces.
C7_EveryLineIndented ==
    call.fn = "get_doc_string" =>
        IF Len(docs.header) = 0 THEN call.ret = ""
        ELSE LET lines == split(call.ret, "\n")
             IN  /\ lines[1] = repeat(" ", 4 * docs.indent) \o "\"\"\""
                 /\ \A i \in 1..Len(lines) :
                       lines[i] # "" => startswith(lines[i], repeat(" ", 4 * docs.indent))

\* C8: from a text whose first line is a signature, and whose lines that begin
\* like one all are, Docs is built; a Docs built from a text whose first line
\* is a signature records the return type of that line, 'iterator' as 'iter',
\* and a later signature of another return type does not change it and is
\* logged.
C8_FirstReturnTypeKept ==
    /\ (/\ call.fn = "Docs"
        /\ ~input.no_text
        /\ input.source[1].kind = "sig"
        /\ \A i \in 1..Len(input.source) : input.source[i].kind # "loose")
       => ~call.raised /\ built
    /\ built /\ input.source[1].kind = "sig" =>
        /\ docs.rtype = IF input.source[1].rtype = "iterator" THEN "iter"
                        ELSE input.source[1].rtype
        /\ (/\ call.fn = "Docs"
            /\ \E i \in 2..Len(input.source) :
                  /\ input.source[i].kind = "sig"
                  /\ input.source[i].rtype # input.source[1].rtype)
           => "[getEmpire] Different rtypes" \in {log[k] : k \in 1..Len(log)}

C8_Witness ==
    /\ call.fn = "Docs"
    /\ built
    /\ Len(input.source) = 2
    /\ input.source[1].rtype = "iterator"
    /\ input.source[2].rtype = "empire"
    /\ docs.rtype = "iter"

\* C9: a Docs is built only from a text whose first line, and whose every later
\* line that begins with the name and a parenthesis, is a signature of the
\* grammar.
C9_StrictParsing ==
    built => \A i \in 1..Len(input.source) : input.source[i].kind # "loose"

\* C10: the Docs of an empty or absent text has return type 'unknown' and the
\* single parameter '*args', and both its renderings return: get_doc_string
\* the empty string, get_argument_string a string.
C10_DegenerateRenders ==
    degenerate =>
        /\ docs.rtype = "unknown"
        /\ docs.args = << "*args" >>
        /\ call.fn = "get_doc_string" => call.ret = ""
        /\ call.fn = "get_argument_string" => ~call.raised

====
